---- MODULE Spec2Model ----
(***************************************************************************)
(* Model of executiveordermonitor.py: the polling loop main(), one cycle   *)
(* check_eos() with its retry loop, and the cache file seen_eos.json.      *)
(*                                                                         *)
(* Identifiers (document_number) are 1..NumIds; NoDocNum stands for a      *)
(* listing record whose document_number is missing or empty (falsy).       *)
(* The detail record of a document is abstracted to one value of Versions  *)
(* (the tuple of title, number, dates and URLs the detail endpoint         *)
(* returned).  Python integers are unbounded, so no width is modelled.     *)
(*                                                                         *)
(* The specifications share the actions:                                   *)
(*   Spec       any cache file, any listing, the listing may change;       *)
(*   SpecIdem   any cache file, any listing, the listing never changes;    *)
(*   SpecSched  one fixed listing, long runs of failed cycles;             *)
(*   SpecQuota  one fixed listing, responses with a quota header;          *)
(*   SpecProc   any cache file, one fixed listing, manual interrupts.      *)
(***************************************************************************)
EXTENDS Integers, Sequences, FiniteSets, TLC

\* ---- bounds of the model ------------------------------------------------
NumIds == 2
MaxListing == 2
NumVersions == 2
MaxCycleErrors == 1
MaxErrors == 5

\* ---- program constants --------------------------------------------------
POLL_INTERVALS == <<1, 5, 10, 30, 60>>
MAX_RETRIES == 3
RETRY_DELAY == 5

Ids == 1..NumIds
NoDocNum == 0
Records == Ids \cup {NoDocNum}
Versions == 1..NumVersions
Listings == UNION {[1..n -> Records] : n \in 0..MaxListing}

Min(a, b) == IF a < b THEN a ELSE b
Max(a, b) == IF a > b THEN a ELSE b

\* ---- dictionaries (Dict[str, dict]) -------------------------------------
EmptyDict == [k \in {} |-> 0]
Put(m, k, v) == [x \in (DOMAIN m) \cup {k} |-> IF x = k THEN v ELSE m[x]]

\* eo_data built from the detail response
eo_data(doc_num, d) == [document_number |-> doc_num, fields |-> d]

\* the dictionaries a previous run can have written
WrittenDicts ==
  UNION {{[k \in S |-> eo_data(k, v[k])] : v \in [S -> Versions]} : S \in SUBSET Ids}

\* ---- the cache file -----------------------------------------------------
\* json.dump followed by json.load gives back the dictionary: its keys are
\* strings and its values are dictionaries of strings, numbers and null.
AbsentFile == [kind |-> "absent", content |-> EmptyDict]
CorruptFile == [kind |-> "corrupt", content |-> EmptyDict]
ValidFile(m) == [kind |-> "valid", content |-> m]

\* mutant: the existing file is ignored
load_seen_eos_ignores_file(f) == EmptyDict
\* os.path.exists + json.load: the dictionary of a parseable file
load_seen_eos(f) == IF f.kind = "valid" THEN f.content ELSE EmptyDict

\* json.dump of the whole dictionary, overwriting the file
save_seen_eos(seen) == ValidFile(seen)

FileKeys(f) == IF f.kind = "valid" THEN DOMAIN f.content ELSE {}

\* ---- the X-RateLimit-Remaining header of a response ---------------------
\* NoHeader: the response has no such header (or there is no response)
NoHeader == -1
LOW_QUOTA == 10
QUOTA_PAUSE == 5
RemainingValues == {NoHeader, 0, LOW_QUOTA - 1, LOW_QUOTA}

\* mutant: a remaining quota of 0 is taken for a missing header
rate_limited_zero_is_falsy(remaining) ==
  remaining # NoHeader /\ remaining # 0 /\ remaining < LOW_QUOTA
\* if remaining and int(remaining) < 10
rate_limited(remaining) == remaining # NoHeader /\ remaining < LOW_QUOTA

\* the response exposes a remaining quota below the threshold
ExposesLowQuota(remaining) == remaining \in 0..(LOW_QUOTA - 1)

VARIABLES
  cacheFile,          \* seen_eos.json
  remote,             \* the listing the remote endpoint currently serves
  pc,                 \* position of the single thread
  seen_eos,           \* check_eos local
  attempt,            \* check_eos loop variable
  data,               \* results of the listing response of this attempt
  idx,                \* position of the for loop over the results
  found_new,          \* check_eos local
  result,             \* value last returned by check_eos
  interval_index,     \* main local
  consecutive_errors, \* main local
  interval,           \* main local
  exit_code,          \* exit status of the process, "running" while it runs
  \* history variables (observations, never read by the program)
  fileAtStart,        \* the cache file when the current cycle started
  listReq,            \* listing requests issued in the current cycle
  listErrs,           \* listing requests that raised in the current cycle
  detailReq,          \* detail requests issued per identifier, this cycle
  detailErrs,         \* detail requests that raised per identifier, this cycle
  notified,           \* notifications printed per identifier, this cycle
  everNotified,       \* identifiers notified over the life of the cache file
  streakStart,        \* interval_index when consecutive_errors was last 0
  fileWrites,         \* calls of save_seen_eos in the current cycle
  retrySleeps,        \* calls of time.sleep(RETRY_DELAY) in the current cycle
  lowQuota,           \* responses that exposed a low quota, per endpoint
  pauses,             \* calls of time.sleep(5) for a low quota, this cycle
  attemptKeys,        \* keys of seen_eos when the listing of this attempt came
  trace               \* events of the for loop of this attempt, in order

locals == <<seen_eos, attempt, data, idx, found_new>>
sched == <<interval_index, consecutive_errors, interval, streakStart>>
requests == <<listReq, listErrs, detailReq, detailErrs>>
quotaObs == <<lowQuota, pauses>>
attemptObs == <<attemptKeys, trace>>
cycleObs == <<fileAtStart, requests, notified, fileWrites, retrySleeps,
              quotaObs, attemptObs>>
vars == <<cacheFile, remote, pc, locals, result, sched, exit_code, cycleObs,
          everNotified>>

ZeroCount == [i \in Ids |-> 0]
Bump(f, i) == [f EXCEPT ![i] = @ + 1]
NoLowQuota == [listing |-> 0, detail |-> 0]

\* the state before the first cycle, given the cache file and the listing
InitWith(file, listing) ==
  /\ cacheFile = file
  /\ remote = listing
  /\ pc = "main"
  /\ seen_eos = EmptyDict
  /\ attempt = 0
  /\ data = <<>>
  /\ idx = 1
  /\ found_new = FALSE
  /\ result = "none"
  /\ interval_index = 0
  /\ consecutive_errors = 0
  /\ interval = POLL_INTERVALS[1]
  /\ exit_code = "running"
  /\ fileAtStart = file
  /\ listReq = 0
  /\ listErrs = 0
  /\ detailReq = ZeroCount
  /\ detailErrs = ZeroCount
  /\ notified = ZeroCount
  /\ everNotified = FileKeys(file)
  /\ streakStart = 0
  /\ fileWrites = 0
  /\ retrySleeps = 0
  /\ lowQuota = NoLowQuota
  /\ pauses = 0
  /\ attemptKeys = {}
  /\ trace = <<>>

Init ==
  \E file \in {AbsentFile, CorruptFile} \cup {ValidFile(m) : m \in WrittenDicts} :
    \E listing \in Listings : InitWith(file, listing)

\* ---- environment: the remote listing changes ----------------------------
\* The listing is ordered newest first and holds one page: a document that is
\* published comes first and the oldest record leaves a full page.  Only a
\* listing request observes the listing; it is taken to change between two
\* cycles, not between the attempts of one cycle.
Published(listing, r) == SubSeq(<<r>> \o listing, 1, Min(Len(listing) + 1, MaxListing))

RemoteChange ==
  /\ pc = "main"
  /\ \E r \in Records : remote' = Published(remote, r)
  /\ remote' # remote
  /\ UNCHANGED <<cacheFile, pc, locals, result, sched, exit_code, cycleObs,
                 everNotified>>

\* ---- main(): top of the while loop, call of check_eos -------------------
\* mutant: an unparseable file is taken for an empty one
load_raises_tolerant(f) == FALSE
\* os.path.exists + json.load; json.load raises on an unparseable file
load_raises(f) == f.kind = "corrupt"

\* interval = POLL_INTERVALS[interval_index]; check_eos() starts with
\* seen_eos = load_seen_eos().  The exception of json.load is no
\* RequestException and no KeyboardInterrupt: nothing catches it and the
\* interpreter ends with status 1.
MainTick ==
  /\ pc = "main"
  /\ interval' = POLL_INTERVALS[interval_index + 1]
  /\ IF load_raises(cacheFile)
       THEN /\ pc' = "crashed"
            /\ exit_code' = "1"
            /\ UNCHANGED <<seen_eos, attempt>>
       ELSE /\ pc' = "list"
            /\ seen_eos' = load_seen_eos(cacheFile)
            /\ attempt' = 0
            /\ UNCHANGED exit_code
  /\ fileAtStart' = cacheFile
  /\ UNCHANGED <<cacheFile, remote, data, idx, found_new, result,
                 interval_index, consecutive_errors, streakStart, requests,
                 notified, everNotified, fileWrites, retrySleeps, quotaObs,
                 attemptObs>>

\* ---- check_eos: except requests.exceptions.RequestException -------------
\* mutant: off by one, the last attempt never gives up
OnRequestException_never_gives_up ==
  IF attempt < MAX_RETRIES
    THEN /\ attempt' = attempt + 1
         /\ retrySleeps' = retrySleeps + 1
         /\ pc' = "list"
         /\ UNCHANGED result
    ELSE /\ result' = "False"
         /\ pc' = "ret"
         /\ UNCHANGED <<attempt, retrySleeps>>

\* mutant: the retry delay is slept after the last attempt too
OnRequestException_sleeps_last ==
  /\ retrySleeps' = retrySleeps + 1
  /\ IF attempt < MAX_RETRIES - 1
       THEN /\ attempt' = attempt + 1
            /\ pc' = "list"
            /\ UNCHANGED result
       ELSE /\ result' = "False"
            /\ pc' = "ret"
            /\ UNCHANGED attempt

\* print the error; sleep RETRY_DELAY and go to the next attempt, or print
\* "Failed after maximum retries" and return False
OnRequestException ==
  IF attempt < MAX_RETRIES - 1
    THEN /\ attempt' = attempt + 1
         /\ retrySleeps' = retrySleeps + 1
         /\ pc' = "list"
         /\ UNCHANGED result
    ELSE /\ result' = "False"
         /\ pc' = "ret"
         /\ UNCHANGED <<attempt, retrySleeps>>

\* a cycle may fail only while the failure counter and the interval index are
\* below the limits of the specification
MayFail(limit) ==
  \/ attempt < MAX_RETRIES - 1
  \/ consecutive_errors < limit.errors /\ interval_index < limit.index

\* the values the X-RateLimit-Remaining header takes in the specification
Headers(limit) == IF limit.quota THEN RemainingValues ELSE {NoHeader}

\* lines 62-65: the header of the listing response is read; a low quota is
\* printed and followed by time.sleep(5)
ListResponse(remaining) ==
  /\ lowQuota' = [lowQuota EXCEPT !.listing =
                    IF ExposesLowQuota(remaining) THEN @ + 1 ELSE @]
  /\ pauses' = IF rate_limited(remaining) THEN pauses + 1 ELSE pauses

\* lines 77-83: the header of the detail response is not read
DetailResponse(remaining) ==
  /\ lowQuota' = [lowQuota EXCEPT !.detail =
                    IF ExposesLowQuota(remaining) THEN @ + 1 ELSE @]
  /\ UNCHANGED pauses

\* the listing request raises: requests.get raises (connection error,
\* timeout: no response, NoHeader), or the response has a non-2xx status and
\* raise_for_status raises after the header was read
ListFail(limit) ==
  /\ pc = "list"
  /\ MayFail(limit)
  /\ \E remaining \in Headers(limit) : ListResponse(remaining)
  /\ listReq' = listReq + 1
  /\ listErrs' = listErrs + 1
  /\ OnRequestException
  /\ UNCHANGED <<cacheFile, remote, seen_eos, data, idx, found_new, sched,
                 exit_code, fileAtStart, detailReq, detailErrs, notified,
                 everNotified, fileWrites, attemptObs>>

\* mutant: the membership test is forgotten
IsSkipped_no_membership(doc_num, seen) == doc_num = NoDocNum

\* if not doc_num or doc_num in seen_eos: continue
IsSkipped(doc_num, seen) == doc_num = NoDocNum \/ doc_num \in DOMAIN seen

\* the for loop runs over the records it skips: the position of the first
\* record at or after i that is not skipped, Len + 1 when there is none
RECURSIVE SkipTo(_, _, _)
SkipTo(listing, seen, i) ==
  IF i > Len(listing) THEN i
  ELSE IF IsSkipped(listing[i], seen) THEN SkipTo(listing, seen, i + 1)
  ELSE i

\* the listing request succeeds: data = response.json(), found_new = False,
\* the loop starts
ListOK(limit) ==
  /\ pc = "list"
  /\ \E remaining \in Headers(limit) : ListResponse(remaining)
  /\ listReq' = listReq + 1
  /\ data' = remote
  /\ found_new' = FALSE
  /\ idx' = SkipTo(remote, seen_eos, 1)
  /\ attemptKeys' = DOMAIN seen_eos
  /\ trace' = <<>>
  /\ pc' = "scan"
  /\ UNCHANGED <<cacheFile, remote, seen_eos, attempt, result, sched,
                 exit_code, fileAtStart, listErrs, detailReq, detailErrs,
                 notified, everNotified, fileWrites, retrySleeps>>

\* the detail request of a new item succeeds (lines 77-96)
DetailOK(limit) ==
  /\ pc = "scan"
  /\ idx <= Len(data)
  /\ \E remaining \in Headers(limit) : DetailResponse(remaining)
  /\ detailReq' = Bump(detailReq, data[idx])
  /\ trace' = Append(trace, <<"fetch", data[idx]>>)
  /\ pc' = "notify"
  /\ UNCHANGED <<cacheFile, remote, locals, result, sched, exit_code,
                 fileAtStart, listReq, listErrs, detailErrs, notified,
                 everNotified, fileWrites, retrySleeps, attemptKeys>>

\* the notification is printed (lines 99-110)
Notify ==
  /\ pc = "notify"
  /\ notified' = Bump(notified, data[idx])
  /\ everNotified' = everNotified \cup {data[idx]}
  /\ trace' = Append(trace, <<"notify", data[idx]>>)
  /\ pc' = "record"
  /\ UNCHANGED <<cacheFile, remote, locals, result, sched, exit_code,
                 fileAtStart, requests, fileWrites, retrySleeps, quotaObs,
                 attemptKeys>>

\* mutant: the item is not put in the dictionary
NewItem_forgets_item ==
  /\ pc = "record"
  /\ trace' = Append(trace, <<"insert", data[idx]>>)
  /\ found_new' = TRUE
  /\ idx' = SkipTo(data, seen_eos, idx + 1)
  /\ pc' = "scan"
  /\ UNCHANGED <<cacheFile, remote, seen_eos, attempt, data, result, sched,
                 exit_code, fileAtStart, requests, notified, everNotified,
                 fileWrites, retrySleeps, quotaObs, attemptKeys>>

\* mutant: the loop steps over the record that follows a new item
NewItem_skips_next ==
  /\ pc = "record"
  /\ \E d \in Versions :
       seen_eos' = Put(seen_eos, data[idx], eo_data(data[idx], d))
  /\ trace' = Append(trace, <<"insert", data[idx]>>)
  /\ found_new' = TRUE
  /\ idx' = SkipTo(data, seen_eos', Min(idx + 2, Len(data) + 1))
  /\ pc' = "scan"
  /\ UNCHANGED <<cacheFile, remote, attempt, data, result, sched, exit_code,
                 fileAtStart, requests, notified, everNotified, fileWrites,
                 retrySleeps, quotaObs, attemptKeys>>

\* seen_eos[doc_num] = eo_data, with the detail record d the request
\* returned; found_new = True; the loop goes on (lines 112-113)
NewItem ==
  /\ pc = "record"
  /\ \E d \in Versions :
       seen_eos' = Put(seen_eos, data[idx], eo_data(data[idx], d))
  /\ trace' = Append(trace, <<"insert", data[idx]>>)
  /\ found_new' = TRUE
  /\ idx' = SkipTo(data, seen_eos', idx + 1)
  /\ pc' = "scan"
  /\ UNCHANGED <<cacheFile, remote, attempt, data, result, sched, exit_code,
                 fileAtStart, requests, notified, everNotified, fileWrites,
                 retrySleeps, quotaObs, attemptKeys>>

\* mutant: the item is put in the dictionary before its detail is fetched
DetailFail_records_first(limit) ==
  /\ pc = "scan"
  /\ idx <= Len(data)
  /\ MayFail(limit)
  /\ \E remaining \in Headers(limit) : DetailResponse(remaining)
  /\ seen_eos' = Put(seen_eos, data[idx], eo_data(data[idx], 1))
  /\ detailReq' = Bump(detailReq, data[idx])
  /\ detailErrs' = Bump(detailErrs, data[idx])
  /\ OnRequestException
  /\ UNCHANGED <<cacheFile, remote, data, idx, found_new, sched, exit_code,
                 fileAtStart, listReq, listErrs, notified, everNotified,
                 fileWrites, attemptObs>>

\* mutant: fail fast, a detail error ends the cycle at once
DetailFail_fail_fast(limit) ==
  /\ pc = "scan"
  /\ idx <= Len(data)
  /\ consecutive_errors < limit.errors /\ interval_index < limit.index
  /\ \E remaining \in Headers(limit) : DetailResponse(remaining)
  /\ detailReq' = Bump(detailReq, data[idx])
  /\ detailErrs' = Bump(detailErrs, data[idx])
  /\ result' = "False"
  /\ pc' = "ret"
  /\ UNCHANGED <<cacheFile, remote, seen_eos, attempt, data, idx, found_new,
                 sched, exit_code, fileAtStart, listReq, listErrs, notified,
                 everNotified, fileWrites, retrySleeps, attemptObs>>

\* the detail request of a new item raises
DetailFail(limit) ==
  /\ pc = "scan"
  /\ idx <= Len(data)
  /\ MayFail(limit)
  /\ \E remaining \in Headers(limit) : DetailResponse(remaining)
  /\ detailReq' = Bump(detailReq, data[idx])
  /\ detailErrs' = Bump(detailErrs, data[idx])
  /\ OnRequestException
  /\ UNCHANGED <<cacheFile, remote, seen_eos, data, idx, found_new, sched,
                 exit_code, fileAtStart, listReq, listErrs, notified,
                 everNotified, fileWrites, attemptObs>>

\* mutant: the dictionary is never saved
FinishAttempt_never_saves ==
  /\ pc = "scan"
  /\ idx > Len(data)
  /\ result' = "True"
  /\ pc' = "ret"
  /\ UNCHANGED <<cacheFile, remote, locals, sched, exit_code, cycleObs,
                 everNotified>>

\* mutant: the dictionary is saved at the end of every attempt
FinishAttempt_always_saves ==
  /\ pc = "scan"
  /\ idx > Len(data)
  /\ cacheFile' = save_seen_eos(seen_eos)
  /\ fileWrites' = fileWrites + 1
  /\ result' = "True"
  /\ pc' = "ret"
  /\ UNCHANGED <<remote, locals, sched, exit_code, fileAtStart, requests,
                 notified, retrySleeps, quotaObs, attemptObs, everNotified>>

\* end of the for loop: if found_new: save_seen_eos(seen_eos); return True
FinishAttempt ==
  /\ pc = "scan"
  /\ idx > Len(data)
  /\ cacheFile' = IF found_new THEN save_seen_eos(seen_eos) ELSE cacheFile
  /\ fileWrites' = IF found_new THEN fileWrites + 1 ELSE fileWrites
  /\ result' = "True"
  /\ pc' = "ret"
  /\ UNCHANGED <<remote, locals, sched, exit_code, fileAtStart, requests,
                 notified, retrySleeps, quotaObs, attemptObs, everNotified>>

\* check_eos has returned: its locals are gone, the observations of the
\* cycle end
CycleOver ==
  /\ seen_eos' = EmptyDict
  /\ attempt' = 0
  /\ data' = <<>>
  /\ idx' = 1
  /\ found_new' = FALSE
  /\ fileAtStart' = cacheFile
  /\ listReq' = 0
  /\ listErrs' = 0
  /\ detailReq' = ZeroCount
  /\ detailErrs' = ZeroCount
  /\ notified' = ZeroCount
  /\ fileWrites' = 0
  /\ retrySleeps' = 0
  /\ lowQuota' = NoLowQuota
  /\ pauses' = 0
  /\ attemptKeys' = {}
  /\ trace' = <<>>

\* ---- main(): the transition of the poll state ---------------------------
\* mutant: a success returns straight to the fastest interval
on_success_index_resets(i, errs) == IF errs > 0 THEN 0 ELSE i
\* mutant: off by one, the index may step past the end of the list
on_failure_index_past_end(i) == IF i < Len(POLL_INTERVALS) THEN i + 1 ELSE i

on_success_errors(errs) == 0
on_success_index(i, errs) == IF errs > 0 /\ i > 0 THEN i - 1 ELSE i
on_failure_errors(errs) == errs + 1
on_failure_index(i) == IF i < Len(POLL_INTERVALS) - 1 THEN i + 1 ELSE i

MainSuccess ==
  /\ pc = "ret"
  /\ result = "True"
  /\ consecutive_errors' = on_success_errors(consecutive_errors)
  /\ interval_index' = on_success_index(interval_index, consecutive_errors)
  /\ streakStart' = interval_index'
  /\ pc' = "sleep"
  /\ CycleOver
  /\ UNCHANGED <<cacheFile, remote, result, interval, exit_code,
                 everNotified>>

MainFailure ==
  /\ pc = "ret"
  /\ result = "False"
  /\ consecutive_errors' = on_failure_errors(consecutive_errors)
  /\ interval_index' = on_failure_index(interval_index)
  /\ pc' = "sleep"
  /\ CycleOver
  /\ UNCHANGED <<cacheFile, remote, result, interval, exit_code,
                 everNotified, streakStart>>

\* time.sleep(interval), back to the top of the while loop
MainSleep ==
  /\ pc = "sleep"
  /\ pc' = "main"
  /\ UNCHANGED <<cacheFile, remote, locals, result, sched, exit_code,
                 cycleObs, everNotified>>

\* ---- __main__: except KeyboardInterrupt ---------------------------------
\* mutant: the interrupt is not caught and the interpreter ends with 130
KeyboardInterrupt_uncaught == "130"
\* print "Stopping monitor..." and sys.exit(0)
KeyboardInterrupt_exit == "0"

\* Ctrl-C at any point of the running program: the exception leaves main()
\* and check_eos(), whose locals are gone, and is caught at the top level
Interrupt ==
  /\ pc \notin {"crashed", "exited"}
  /\ pc' = "exited"
  /\ exit_code' = KeyboardInterrupt_exit
  /\ CycleOver
  /\ result' = "none"
  /\ interval_index' = 0
  /\ consecutive_errors' = 0
  /\ interval' = POLL_INTERVALS[1]
  /\ streakStart' = 0
  /\ UNCHANGED <<cacheFile, remote, everNotified>>

\* one step of the program, with the limits on failed cycles
Step(limit) ==
  \/ MainTick
  \/ ListFail(limit)
  \/ ListOK(limit)
  \/ DetailOK(limit)
  \/ Notify
  \/ NewItem
  \/ DetailFail(limit)
  \/ FinishAttempt
  \/ MainSuccess
  \/ MainFailure
  \/ MainSleep

\* few failed cycles in a row, responses without a quota header
CycleLimit ==
  [errors |-> MaxCycleErrors, index |-> MaxCycleErrors, quota |-> FALSE]

\* long runs of failed cycles: the index never stops a failure
SchedLimit ==
  [errors |-> MaxErrors, index |-> Len(POLL_INTERVALS), quota |-> FALSE]

\* few failed cycles in a row, responses with any quota header
QuotaLimit ==
  [errors |-> MaxCycleErrors, index |-> MaxCycleErrors, quota |-> TRUE]

Next == RemoteChange \/ Step(CycleLimit)

Spec == Init /\ [][Next]_vars

\* the remote listing never changes
NextIdem == Step(CycleLimit)

SpecIdem == Init /\ [][NextIdem]_vars

\* one listing with one document, no cache file, long runs of failures
InitSched == InitWith(AbsentFile, <<1>>)

NextSched == Step(SchedLimit)

SpecSched == InitSched /\ [][NextSched]_vars

\* the same, where the program takes a step whenever it can: the single
\* thread of main() is never suspended for ever
SpecSchedFair == SpecSched /\ WF_vars(NextSched)

\* one listing with two documents, no cache file, any quota header
InitQuota == InitWith(AbsentFile, <<1, 2>>)

NextQuota == Step(QuotaLimit)

SpecQuota == InitQuota /\ [][NextQuota]_vars

\* the process from start to end: any cache file, one listing with two
\* documents, and a manual interrupt at any point
InitProc ==
  \E file \in {AbsentFile, CorruptFile} \cup {ValidFile(m) : m \in WrittenDicts} :
    InitWith(file, <<1, 2>>)

NextProc == Interrupt \/ Step(CycleLimit)

SpecProc == InitProc /\ [][NextProc]_vars

TypeOK ==
  /\ pc \in {"main", "list", "scan", "notify", "record", "ret", "sleep",
             "crashed", "exited"}
  /\ attempt \in 0..(MAX_RETRIES - 1)
  /\ result \in {"none", "True", "False"}
  /\ interval_index \in 0..(Len(POLL_INTERVALS) - 1)
  /\ consecutive_errors \in 0..MaxErrors
  /\ data \in Listings
  /\ idx \in 1..(MaxListing + 1)
  /\ exit_code \in {"running", "0", "1"}

\* ---- observations used by the properties --------------------------------
RECURSIVE SumOver(_, _)
SumOver(f, S) == IF S = {} THEN 0
                 ELSE LET x == CHOOSE y \in S : TRUE
                      IN f[x] + SumOver(f, S \ {x})

LoadedKeys == FileKeys(fileAtStart)
InData(id) == \E i \in 1..Len(data) : data[i] = id
DetailOks(id) == detailReq[id] - detailErrs[id]
TotalDetailErrs == SumOver(detailErrs, Ids)
LastIndex == Len(POLL_INTERVALS) - 1
InAttempt == pc \in {"list", "scan", "notify", "record"}

\* C1: in a cycle, an identifier that is a key of the Seen-Set loaded at the
\* start of the cycle gets no detail request and no notification, on any
\* attempt of the cycle.
C1_SeenNotRefetched ==
  \A id \in LoadedKeys : detailReq[id] = 0 /\ notified[id] = 0

\* a retry attempt has run over a listing that holds a seen identifier
C1_Witness ==
  /\ pc = "ret"
  /\ result = "True"
  /\ attempt > 0
  /\ \E id \in LoadedKeys : InData(id)

\* C2 (as claimed): when the cycle returns, every identifier of the fetched
\* listing that was absent from the Seen-Set at the start of the cycle has had
\* exactly one detail request and exactly one notification in the cycle.
C2_ExactlyOnce ==
  pc = "ret" =>
    \A id \in Ids \ LoadedKeys :
      InData(id) => detailReq[id] = 1 /\ notified[id] = 1

\* C2 (amended): an identifier absent from the Seen-Set at the start of the
\* cycle is notified at most once in the cycle and has at most one successful
\* detail request, with at most one detail request per attempt; when the cycle
\* returns True, every such identifier of the fetched listing has exactly one
\* notification and exactly one successful detail request.
C2_AtMostOnce ==
  \A id \in Ids \ LoadedKeys :
    /\ notified[id] <= 1
    /\ DetailOks(id) <= 1
    /\ detailReq[id] <= attempt + 1
    /\ (pc = "ret" /\ result = "True" /\ InData(id)) =>
         (notified[id] = 1 /\ DetailOks(id) = 1)

\* a listing with the same new identifier twice, whose detail request raised
\* once and then succeeded
C2_Witness ==
  /\ pc = "ret"
  /\ result = "True"
  /\ Len(data) = 2
  /\ data[1] = data[2]
  /\ data[1] \in Ids \ LoadedKeys
  /\ detailReq[data[1]] = 2
  /\ notified[data[1]] = 1

\* C3 (as claimed): when a cycle returns, True or False, every identifier
\* notified in the cycle is a key of the cache file.
C3_NotifiedPersisted ==
  pc = "ret" => \A id \in Ids : notified[id] > 0 => id \in FileKeys(cacheFile)

C5_BackoffBound ==
  /\ 0 <= interval_index
  /\ interval_index <= LastIndex
  /\ interval_index = Min(streakStart + consecutive_errors, LastIndex)

\* failures from a non-zero index ran into the end of the list
C5_Witness ==
  /\ streakStart > 0
  /\ streakStart + consecutive_errors > LastIndex
  /\ interval_index = LastIndex

\* C6: a successful cycle after one or more failed cycles resets the failure
\* counter to 0 and moves the index exactly one step toward the fastest entry,
\* or leaves it at 0.
C6_SuccessStepsBack ==
  [][(pc = "ret" /\ result = "True" /\ consecutive_errors > 0 /\ pc' = "sleep")
       => /\ consecutive_errors' = 0
          /\ interval_index' = Max(interval_index - 1, 0)]_vars

\* a success has taken the index from the slowest entry one step back
C6_Witness ==
  /\ pc = "sleep"
  /\ result = "True"
  /\ consecutive_errors = 0
  /\ interval_index = LastIndex - 1

\* C7: when the listing request raises on 3 consecutive attempts of a cycle,
\* the cycle returns False after exactly 3 listing requests, and the scheduler
\* then adds one to the index, capped at the last entry, and one to the
\* failure counter.
C7_ListingFailsThrice ==
  /\ [](listErrs = MAX_RETRIES =>
          pc = "ret" /\ result = "False" /\ listReq = MAX_RETRIES)
  /\ [][(listErrs = MAX_RETRIES /\ pc = "ret" /\ pc' # "ret")
          => /\ interval_index' = Min(interval_index + 1, LastIndex)
             /\ consecutive_errors' = consecutive_errors + 1]_vars

\* three listing failures at the slowest entry: the cap applies
C7_Witness ==
  /\ listErrs = MAX_RETRIES
  /\ pc = "ret"
  /\ interval_index = LastIndex

\* C8 (as claimed): once a detail request has raised in a cycle, the cycle
\* has reported failure, with no further request.
C8_DetailErrorFailsCycle ==
  TotalDetailErrs > 0 => (pc = "ret" /\ result = "False")

\* C8 (amended): a detail request that raises is not retried on its own; it
\* ends the attempt and is handled like a listing error: before the last
\* attempt the listing is requested again on the next attempt, on the last
\* attempt the cycle returns False; every fetch error uses up one attempt.
C8_DetailErrorEndsAttempt ==
  /\ [](listErrs + TotalDetailErrs =
          IF pc = "ret" /\ result = "False" THEN MAX_RETRIES ELSE attempt)
  /\ [][(\E id \in Ids : detailErrs'[id] = detailErrs[id] + 1)
          => IF attempt < MAX_RETRIES - 1
               THEN pc' = "list" /\ attempt' = attempt + 1
               ELSE pc' = "ret" /\ result' = "False"]_vars

\* a detail request raised twice and the cycle still returned True
C8_Witness ==
  /\ pc = "ret"
  /\ result = "True"
  /\ \E id \in Ids : detailErrs[id] = 2 /\ notified[id] = 1

\* C9: no step removes a key from the cache file.
C9_KeysGrow ==
  [][FileKeys(cacheFile) \subseteq FileKeys(cacheFile')]_vars

\* a cycle that started with a non-empty file has added a key
C9_Witness ==
  /\ pc = "ret"
  /\ LoadedKeys # {}
  /\ FileKeys(cacheFile) # LoadedKeys

\* C10: every key of the cache file is an identifier that has been notified.
C10_KeysWereNotified ==
  FileKeys(cacheFile) \subseteq everNotified

\* the first write of a cache file that was absent
C10_Witness ==
  /\ pc = "ret"
  /\ fileAtStart = AbsentFile
  /\ FileKeys(cacheFile) = Ids

\* C11: when the scheduler sleeps after a cycle, the duration it sleeps is
\* the entry of POLL_INTERVALS at the interval index the transition of that
\* cycle has just produced.
C11_SleepsUpdatedInterval ==
  pc = "sleep" => interval = POLL_INTERVALS[interval_index + 1]

\* C12: save_seen_eos is called at most once in a cycle, and only by the
\* attempt that returns True after it found a new item; while it has not
\* been called the cache file is the file the cycle started with; a cycle
\* that returned False, and a cycle whose listing held no identifier outside
\* the loaded Seen-Set, has not called it.
C12_WriteOnlyOnNew ==
  /\ fileWrites <= 1
  /\ fileWrites = 1 =>
       /\ pc = "ret"
       /\ result = "True"
       /\ \E id \in Ids \ LoadedKeys : InData(id) /\ notified[id] > 0
  /\ fileWrites = 0 => cacheFile = fileAtStart
  /\ (pc = "ret" /\ result = "False") => fileWrites = 0
  /\ (pc = "ret" /\ \A id \in Ids : InData(id) => id \in LoadedKeys) =>
       fileWrites = 0

\* a cycle over a non-empty listing of seen identifiers has returned True
C12_Witness ==
  /\ pc = "ret"
  /\ result = "True"
  /\ \E id \in Ids : InData(id)
  /\ \A id \in Ids : InData(id) => id \in LoadedKeys
  /\ cacheFile = fileAtStart

\* C13: while the cache file is unparseable the program is at the top of
\* the loop or has ended, with no listing request, no detail request, no
\* notification and no write of the file; the process that ended on the
\* parse error has status 1, left the file as it was, and takes no further
\* step.
C13_CorruptCacheHalts ==
  /\ [](cacheFile.kind = "corrupt" =>
          /\ pc \in {"main", "crashed", "exited"}
          /\ listReq = 0
          /\ \A id \in Ids : detailReq[id] = 0 /\ notified[id] = 0
          /\ fileWrites = 0)
  /\ [](pc = "crashed" => cacheFile = CorruptFile /\ exit_code = "1")
  /\ [][pc # "crashed"]_vars

\* the first cycle of a run met an unparseable cache file
C13_Witness ==
  /\ pc = "crashed"
  /\ cacheFile.kind = "corrupt"

\* C14 as claimed: whenever the loop of main() has stopped, it was stopped
\* by a manual interrupt and the process ended with status 0.
C14_OnlyInterruptStops ==
  pc \in {"main", "list", "scan", "notify", "record", "ret", "sleep"}
    \/ (pc = "exited" /\ exit_code = "0")

\* C14: while the process runs the program can always take a step, and a
\* return of check_eos, True or False, is followed by the sleep, the sleep
\* by the top of the loop, the top of the loop by the next cycle; the loop
\* is left only by a manual interrupt, which ends the process with status
\* 0, or by the parse error of an unparseable cache file at the start of a
\* cycle, which ends it with status 1.
C14_ExitPaths ==
  /\ [](exit_code = "running" <=> pc \notin {"exited", "crashed"})
  /\ [](exit_code = "running" => ENABLED Step(CycleLimit))
  /\ [](pc = "exited" => exit_code = "0")
  /\ [](pc = "crashed" => exit_code = "1")
  /\ [][/\ pc = "ret" => pc' \in {"sleep", "exited"}
        /\ pc = "sleep" => pc' \in {"main", "exited"}
        /\ (pc = "main" /\ pc' # "main") =>
              pc' \in {"list", "exited", "crashed"}
        /\ pc' = "crashed" => (pc = "main" /\ cacheFile.kind = "corrupt")
        /\ pc' = "exited" => exit_code' = "0"]_vars

\* the process was interrupted after a notification that is not in the file
C14_Witness ==
  /\ pc = "exited"
  /\ exit_code = "0"
  /\ everNotified # FileKeys(cacheFile)

\* C15: over a run of the process, with the cache file written only by the
\* process, a notification is printed only for an identifier that has not
\* been notified before, in this cycle or an earlier one.
C15_NeverNotifiedAgain ==
  [][\A id \in Ids : notified'[id] > notified[id] => id \notin everNotified]_vars

\* C16: if from some point on every return of check_eos is True, then from
\* some point on the interval index is 0, the fastest entry of
\* POLL_INTERVALS.
C16_RecoversToFastest ==
  <>[](pc = "ret" => result = "True") => <>[](interval_index = 0)

\* the identifiers the loop is to process: the records of the listing, in
\* the order of the listing, that carry an identifier which is not in the
\* Seen-Set when the loop reaches them
RECURSIVE NewIds(_, _)
NewIds(listing, keys) ==
  IF listing = <<>> THEN <<>>
  ELSE IF Head(listing) = NoDocNum \/ Head(listing) \in keys
         THEN NewIds(Tail(listing), keys)
         ELSE <<Head(listing)>> \o NewIds(Tail(listing), keys \cup {Head(listing)})

ItemEvents(id) == <<<<"fetch", id>>, <<"notify", id>>, <<"insert", id>>>>

RECURSIVE EventsOf(_)
EventsOf(ids) ==
  IF ids = <<>> THEN <<>> ELSE ItemEvents(Head(ids)) \o EventsOf(Tail(ids))

Inserted == {trace[i][2] : i \in {j \in 1..Len(trace) : trace[j][1] = "insert"}}

\* C17: in an attempt, the events of the loop are a prefix of: for each
\* new identifier of the listing, in the order of the listing, its detail
\* fetch, then its notification, then its insertion in seen_eos; when the
\* loop has run to the end of the listing the events are the whole of it;
\* and seen_eos holds the keys it had plus the identifiers inserted.
C17_ListingOrder ==
  pc \in {"scan", "notify", "record"} =>
    LET expected == EventsOf(NewIds(data, attemptKeys))
    IN /\ Len(trace) <= Len(expected)
       /\ trace = SubSeq(expected, 1, Len(trace))
       /\ (pc = "scan" /\ idx > Len(data)) => trace = expected
       /\ DOMAIN seen_eos = attemptKeys \cup Inserted

\* the loop has processed the two new items of a listing
C17_Witness ==
  /\ pc = "scan"
  /\ idx > Len(data)
  /\ Len(trace) = 6
  /\ trace[1][2] # trace[4][2]
  /\ trace[4][2] = data[Len(data)]

\* C18: no step changes or removes the value the cache file stores under a
\* key it already has.
C18_WriteOnce ==
  [][\A k \in FileKeys(cacheFile) :
       k \in FileKeys(cacheFile') /\ cacheFile'.content[k] = cacheFile.content[k]]_vars

\* the file was rewritten by a cycle whose listing held a persisted
\* identifier next to a new one
C18_Witness ==
  /\ pc = "ret"
  /\ fileWrites = 1
  /\ \E id \in LoadedKeys : InData(id)
  /\ FileKeys(cacheFile) # LoadedKeys

\* C19 as claimed: in a cycle, every response, of the listing endpoint or of
\* the detail endpoint, that exposed a remaining quota below 10 was followed
\* by a pause.
C19_EveryLowQuotaPauses ==
  pauses = lowQuota.listing + lowQuota.detail

\* C19: in a cycle, the pauses for a low quota are as many as the listing
\* responses that exposed a remaining quota below 10: each of them is
\* followed by one pause and a detail response by none; and a cycle returns
\* False only after MAX_RETRIES requests raised, whatever quota the
\* responses exposed.
C19_ListingLowQuotaPauses ==
  /\ pauses = lowQuota.listing
  /\ (pc = "ret" /\ result = "False") =>
        listErrs + TotalDetailErrs = MAX_RETRIES
  /\ (pc = "ret" /\ listErrs + TotalDetailErrs < MAX_RETRIES) =>
        result = "True"

\* a cycle without an error returned True after a listing response and a
\* detail response with a low quota
C19_Witness ==
  /\ pc = "ret"
  /\ result = "True"
  /\ listErrs + TotalDetailErrs = 0
  /\ lowQuota.listing = 1
  /\ lowQuota.detail >= 1
  /\ pauses = 1

\* steps a cycle still has to take: the attempts left, each of at most one
\* listing request and three steps per record
AttemptSteps == 3 * (MaxListing + 1) + 2
CycleSteps ==
  (MAX_RETRIES - attempt) * AttemptSteps +
    CASE pc = "list" -> AttemptSteps - 1
      [] pc = "scan" -> 3 * (Len(data) + 1 - idx)
      [] pc = "notify" -> 3 * (Len(data) + 1 - idx) - 1
      [] pc = "record" -> 3 * (Len(data) + 1 - idx) - 2
      [] OTHER -> 0

\* C20: a cycle issues at most MAX_RETRIES listing requests; it sleeps the
\* retry delay once after each request that raised except the last of a
\* failed cycle, so at most MAX_RETRIES - 1 times; when check_eos has
\* returned, it returned False after exactly MAX_RETRIES requests raised,
\* or True from the first attempt in which no request raised; and every
\* step inside check_eos returns or brings the return nearer.
C20_CycleTerminates ==
  /\ [](listReq <= MAX_RETRIES /\ retrySleeps <= MAX_RETRIES - 1)
  /\ [](retrySleeps = listErrs + TotalDetailErrs
                        - (IF pc = "ret" /\ result = "False" THEN 1 ELSE 0))
  /\ [](pc = "ret" =>
          /\ result \in {"True", "False"}
          /\ result = "False" <=> listErrs + TotalDetailErrs = MAX_RETRIES
          /\ result = "True" => listReq = listErrs + TotalDetailErrs + 1)
  /\ [](CycleSteps >= 0)
  /\ [][InAttempt =>
          pc' \in {"ret", "exited"} \/ CycleSteps' < CycleSteps]_vars

\* a cycle has returned False after a listing error and detail errors
C20_Witness ==
  /\ pc = "ret"
  /\ result = "False"
  /\ listReq = MAX_RETRIES
  /\ listErrs = 1
  /\ TotalDetailErrs = 2
  /\ retrySleeps = 2

====
